---- MODULE Spec2Model ----
(***************************************************************************)
(* Model of the GPA calculator window component (components/window.tsx,    *)
(* kept as src/unnamed/part_000): the class roster, the add/edit modal     *)
(* with its draft, localStorage persistence, and the GPA derivation.       *)
(***************************************************************************)
EXTENDS Integers, Sequences, FiniteSets, TLC

(***************************************************************************)
(* IEEE-754 binary64 arithmetic.  JavaScript numbers are doubles, and      *)
(* calculateGPA compares products and quotients of doubles for equality,   *)
(* so the arithmetic is modelled bit-exactly.  A non-negative double x is  *)
(* held as the natural number x * 2^FracBits, written little-endian in     *)
(* NLimbs limbs of LimbBits bits (TLC integers are 32 bits wide).  Every   *)
(* double that calculateGPA meets is 0 or lies in [2^-11, 2^15], so it is  *)
(* a multiple of 2^-FracBits and the representation is exact.              *)
(***************************************************************************)
LimbBits == 16
Base == 2^LimbBits
NLimbs == 6
FracLimbs == 4
FracBits == FracLimbs * LimbBits
Precision == 53

RECURSIVE Carry(_, _, _)
Carry(s, i, c) ==
  IF i > Len(s) THEN <<>>
  ELSE LET v == s[i] + c IN <<v % Base>> \o Carry(s, i + 1, v \div Base)

BigZero == [i \in 1..NLimbs |-> 0]

\* the integer n (0 <= n < 2^32) as a double
FromInt(n) ==
  [i \in 1..NLimbs |->
     IF i = FracLimbs + 1 THEN n % Base
     ELSE IF i = FracLimbs + 2 THEN n \div Base ELSE 0]

BigAdd(M, N) == Carry([i \in 1..NLimbs |-> M[i] + N[i]], 1, 0)

BigMulSmall(M, k) == Carry([i \in 1..NLimbs |-> M[i] * k], 1, 0)

RECURSIVE RemFrom(_, _, _)
\* remainder of (limbs i..NLimbs of M) divided by d
RemFrom(M, d, i) ==
  IF i > NLimbs THEN 0 ELSE (RemFrom(M, d, i + 1) * Base + M[i]) % d

BigDivSmall(M, d) ==
  [i \in 1..NLimbs |-> (RemFrom(M, d, i + 1) * Base + M[i]) \div d]

RECURSIVE BitLenSmall(_)
BitLenSmall(v) == IF v = 0 THEN 0 ELSE 1 + BitLenSmall(v \div 2)

RECURSIVE TopLimb(_, _)
TopLimb(M, i) == IF i = 0 THEN 0 ELSE IF M[i] # 0 THEN i ELSE TopLimb(M, i - 1)

BitLen(M) ==
  LET t == TopLimb(M, NLimbs)
  IN  IF t = 0 THEN 0 ELSE LimbBits * (t - 1) + BitLenSmall(M[t])

\* bit i of M (bit 0 is the least significant)
BitAt(M, i) == (M[(i \div LimbBits) + 1] \div 2^(i % LimbBits)) % 2

\* the part of limb j that lies below bit s of the whole number
LowPart(M, j, s) ==
  IF LimbBits * j <= s THEN M[j]
  ELSE IF LimbBits * (j - 1) < s THEN M[j] % 2^(s - LimbBits * (j - 1))
  ELSE 0

LowZero(M, s) == \A j \in 1..NLimbs : LowPart(M, j, s) = 0

ClearLow(M, s) == [j \in 1..NLimbs |-> M[j] - LowPart(M, j, s)]

Pow2(s) ==
  [j \in 1..NLimbs |-> IF j = (s \div LimbBits) + 1 THEN 2^(s % LimbBits) ELSE 0]

\* round-to-nearest, ties-to-even, to Precision significant bits; sticky says
\* that the exact value lies strictly above M (a division left a remainder)
RoundNearestEven(M, sticky) ==
  LET L == BitLen(M)
      s == L - Precision
  IN  IF s <= 0 THEN M
      ELSE LET up == /\ BitAt(M, s - 1) = 1
                     /\ (sticky \/ ~LowZero(M, s - 1) \/ BitAt(M, s) = 1)
               hi == ClearLow(M, s)
           IN  IF up THEN BigAdd(hi, Pow2(s)) ELSE hi

\* x + y, x * k and x / d on doubles (k, d small positive integers, which are
\* exact doubles themselves)
DoubleAdd(x, y) == RoundNearestEven(BigAdd(x, y), FALSE)

DoubleMulInt(x, k) == RoundNearestEven(BigMulSmall(x, k), FALSE)

DoubleDivInt(x, d) ==
  RoundNearestEven(BigDivSmall(x, d), RemFrom(x, d, 1) # 0)

\* Math.floor
MathFloor(x) == [j \in 1..NLimbs |-> IF j <= FracLimbs THEN 0 ELSE x[j]]

\* the integer part of a double below 2^32, as an integer
IntPart(x) == x[FracLimbs + 1] + Base * x[FracLimbs + 2]

\* the double nearest to the decimal literal h/100, as the parser reads it
Literal(h) == DoubleDivInt(FromInt(h), 100)

(***************************************************************************)
(* Strings that the program builds are sequences of one-character strings. *)
(***************************************************************************)
DigitChar == <<"0", "1", "2", "3", "4", "5", "6", "7", "8", "9">>

RECURSIVE IntToString(_)
IntToString(n) ==
  IF n < 10 THEN <<DigitChar[n + 1]>>
  ELSE IntToString(n \div 10) \o <<DigitChar[(n % 10) + 1]>>

RECURSIVE PadDigits(_, _)
\* n written with exactly d digits, zero filled
PadDigits(n, d) ==
  IF d = 0 THEN <<>> ELSE PadDigits(n \div 10, d - 1) \o <<DigitChar[(n % 10) + 1]>>

\* Number.prototype.toFixed(d): the integer n for which n / 10^d - x is as
\* close to zero as possible, the larger n if there are two
ToFixed(x, d) ==
  LET scaled == BigAdd(BigMulSmall(x, 10^d), Pow2(FracBits - 1))
      n == IntPart(scaled)
  IN  IF d = 0 THEN IntToString(n)
      ELSE IntToString(n \div 10^d) \o <<".">> \o PadDigits(n % 10^d, d)

(***************************************************************************)
(* State of the Window component.                                          *)
(*   phase          where the component is in its life: "mounted" after    *)
(*                  the first render, "loaded" after the first commit's    *)
(*                  effects, "idle" between user events, "crashed" once a  *)
(*                  render has thrown                                      *)
(*   classes        the roster (useState, line 31)                         *)
(*   classesIsArray FALSE when setClasses received a parsed JSON value     *)
(*                  that is not an array                                   *)
(*   currentClass   the draft; id 0 stands for "no id key", credits 0 for  *)
(*                  undefined                                              *)
(*   store          the localStorage item "gpa-calculator-classes"         *)
(*   now            the wall clock that Date.now() reads                   *)
(*   shown          what the last render displays                          *)
(*   last           the event handled last and its argument                *)
(* A semester string is held as the sequence of its space-separated        *)
(* tokens: "FA 24" is <<"FA", "24">>, "" is <<"">>, and <<>> stands for an *)
(* absent (undefined) semester.                                            *)
(***************************************************************************)
VARIABLES phase, classes, classesIsArray, isModalOpen, isEditMode,
          currentClass, term, year, store, now, shown, last

vars == <<phase, classes, classesIsArray, isModalOpen, isEditMode,
          currentClass, term, year, store, now, shown, last>>

NoSemester == <<>>
EmptyString == <<"">>

\* JavaScript truthiness of an optional string held as tokens
SemesterTruthy(s) == s # NoSemester /\ s # EmptyString

ClassEntry(id, name, grade, credits, semester) ==
  [id |-> id, name |-> name, grade |-> grade, credits |-> credits,
   semester |-> semester]

EmptyDraft == ClassEntry(0, "", "", 0, EmptyString)

(***************************************************************************)
(* GPA derivation.                                                         *)
(***************************************************************************)
GradeHundredths ==
  ("A" :> 400) @@ ("A-" :> 367) @@ ("B+" :> 333) @@ ("B" :> 300) @@
  ("B-" :> 267) @@ ("C+" :> 233) @@ ("C" :> 200) @@ ("C-" :> 167) @@
  ("D" :> 100) @@ ("F" :> 0)

Grades == DOMAIN GradeHundredths

gradePoints == [g \in Grades |-> Literal(GradeHundredths[g])]

\* the filter with the grade test forgotten
CountedByCreditsOnly(cls) == cls.credits # 0

\* if (cls.grade && cls.credits)
Counted(cls) == cls.grade # "" /\ cls.credits # 0

RECURSIVE TotalPoints(_, _)
TotalPoints(cs, n) ==
  IF n = 0 THEN BigZero
  ELSE LET prev == TotalPoints(cs, n - 1)
       IN  IF Counted(cs[n])
           THEN DoubleAdd(prev, DoubleMulInt(gradePoints[cs[n].grade], cs[n].credits))
           ELSE prev

RECURSIVE CountedEntries(_, _)
\* CountedCredits adding one per entry in place of its credits
CountedEntries(cs, n) ==
  IF n = 0 THEN 0
  ELSE CountedEntries(cs, n - 1) + (IF Counted(cs[n]) THEN 1 ELSE 0)

RECURSIVE CountedCredits(_, _)
CountedCredits(cs, n) ==
  IF n = 0 THEN 0
  ELSE CountedCredits(cs, n - 1) + (IF Counted(cs[n]) THEN cs[n].credits ELSE 0)

\* FormatGPA without its last branch: never more than two decimals
FormatGPATwoPlaces(gpa) ==
  IF gpa = MathFloor(gpa) THEN IntToString(IntPart(gpa))
  ELSE IF DoubleMulInt(gpa, 10) = MathFloor(DoubleMulInt(gpa, 10)) THEN ToFixed(gpa, 1)
  ELSE ToFixed(gpa, 2)

\* the three comparisons and the four return statements of lines 160-168
FormatGPA(gpa) ==
  IF gpa = MathFloor(gpa) THEN IntToString(IntPart(gpa))
  ELSE IF DoubleMulInt(gpa, 10) = MathFloor(DoubleMulInt(gpa, 10)) THEN ToFixed(gpa, 1)
  ELSE IF DoubleMulInt(gpa, 100) = MathFloor(DoubleMulInt(gpa, 100)) THEN ToFixed(gpa, 2)
  ELSE ToFixed(gpa, 3)

calculateGPA(cs) ==
  IF Len(cs) = 0 THEN <<"0">>
  ELSE IF \E i \in 1..Len(cs) : Counted(cs[i]) /\ cs[i].grade \notin Grades
       \* gradePoints[grade] is undefined: the sum is NaN, every comparison
       \* fails and NaN.toFixed(3) is "NaN"
       THEN <<"N", "a", "N">>
  ELSE IF CountedCredits(cs, Len(cs)) = 0 THEN <<"0">>
  ELSE FormatGPA(DoubleDivInt(TotalPoints(cs, Len(cs)), CountedCredits(cs, Len(cs))))

RECURSIVE getTotalCreditsOfCounted(_)
\* getTotalCredits with the filter of calculateGPA
getTotalCreditsOfCounted(cs) ==
  IF cs = <<>> THEN 0
  ELSE (IF cs[1].grade # "" /\ cs[1].credits # 0 THEN cs[1].credits ELSE 0)
         + getTotalCreditsOfCounted(Tail(cs))

RECURSIVE getTotalCredits(_)
getTotalCredits(cs) ==
  IF cs = <<>> THEN 0 ELSE cs[1].credits + getTotalCredits(Tail(cs))

\* the two derived values of the header (lines 275 and 278)
Display(cs) == [gpa |-> calculateGPA(cs), credits |-> getTotalCredits(cs)]

(***************************************************************************)
(* Bounds of the model and the values the user picks in the form.          *)
(***************************************************************************)
MaxLen == 2
MaxNow == 3
MaxGpaLen == 2

NamePick == {"Art"}
GradePick == {"A", "B-"}
CreditPick == {2}
TermPick == {"Fall"}
YearPick == {"24"}

\* every option of the term and year selectors
AllTerms == {"Fall", "Spring", "Summer", "Winter"}

AllYears ==
  {"00", "01", "02", "03", "04", "05", "06", "07", "08", "09",
   "10", "11", "12", "13", "14", "15", "16", "17", "18", "19",
   "20", "21", "22", "23", "24", "25", "26", "27", "28", "29",
   "30", "31", "32", "33", "34", "35", "36", "37", "38", "39",
   "40", "41", "42", "43", "44", "45", "46", "47", "48", "49",
   "50", "51", "52", "53", "54", "55", "56", "57", "58", "59",
   "60", "61", "62", "63", "64", "65", "66", "67", "68", "69",
   "70", "71", "72", "73", "74", "75", "76", "77", "78", "79",
   "80", "81", "82", "83", "84", "85", "86", "87", "88", "89",
   "90", "91", "92", "93", "94", "95", "96", "97", "98", "99"}

(***************************************************************************)
(* Semester encoding.                                                      *)
(***************************************************************************)
getTermAbbreviation(fullTerm) ==
  CASE fullTerm = "Spring" -> "SP"
    [] fullTerm = "Fall" -> "FA"
    [] fullTerm = "Summer" -> "SM"
    [] fullTerm = "Winter" -> "WN"
    [] OTHER -> fullTerm

\* getFullTermName with the Summer and Spring cases confused
getFullTermNameConfused(abbreviation) ==
  CASE abbreviation = "SP" -> "Spring"
    [] abbreviation = "FA" -> "Fall"
    [] abbreviation = "SM" -> "Spring"
    [] abbreviation = "WN" -> "Winter"
    [] OTHER -> abbreviation

getFullTermName(abbreviation) ==
  CASE abbreviation = "SP" -> "Spring"
    [] abbreviation = "FA" -> "Fall"
    [] abbreviation = "SM" -> "Summer"
    [] abbreviation = "WN" -> "Winter"
    [] OTHER -> abbreviation

(***************************************************************************)
(* localStorage.  The item is absent, or holds a text that is the JSON of  *)
(* an array, a JSON text of something else, or no JSON at all.             *)
(***************************************************************************)
AbsentItem == [kind |-> "absent", roster |-> <<>>]
UnparsableItem == [kind |-> "unparsable", roster |-> <<>>]
NonArrayItem == [kind |-> "nonarray", roster |-> <<>>]

\* JSON.stringify(classes)
JSONstringify(cs) == [kind |-> "array", roster |-> cs]

\* the auto-save effect without its guard
AutoSaveAlways(cs, st) == JSONstringify(cs)

\* the auto-save effect without its write
AutoSaveNever(cs, st) == st

\* the body of the auto-save effect, run with the roster of the render that
\* scheduled it
AutoSaveEffect(cs, st) == IF Len(cs) > 0 THEN JSONstringify(cs) ELSE st

\* what the data of an earlier session looks like; ids are past timestamps
SavedClass == ClassEntry(1, "Calc I", "A", 4, <<"FA", "24">>)
SavedOldClass == ClassEntry(1, "Calc I", "B-", 2, <<"Fall2024">>)

InitialStores ==
  {AbsentItem, UnparsableItem, NonArrayItem, JSONstringify(<<>>),
   JSONstringify(<<SavedClass>>), JSONstringify(<<SavedOldClass>>)}

Event(op, arg) == [op |-> op, arg |-> arg]

\* a successful submit, with the term and year that were submitted
SubmitEvent(op, arg, t, y) == [op |-> op, arg |-> arg, term |-> t, year |-> y]

Init ==
  /\ phase = "mounted"
  /\ classes = <<>>
  /\ classesIsArray = TRUE
  /\ isModalOpen = FALSE
  /\ isEditMode = FALSE
  /\ currentClass = EmptyDraft
  /\ term = ""
  /\ year = ""
  /\ store \in InitialStores
  /\ now = 2
  /\ shown = Display(<<>>)
  /\ last = Event("render", 0)

(***************************************************************************)
(* Mount: the effects of the first commit (load, then auto-save, both      *)
(* closed over the initial empty roster), then the render that setClasses  *)
(* caused, with the auto-save effect it schedules.                         *)
(***************************************************************************)
LoadEffects ==
  /\ phase = "mounted"
  /\ \/ /\ store.kind = "absent"
        /\ phase' = "idle"
        /\ UNCHANGED <<classes, classesIsArray>>
     \/ /\ store.kind = "array"
        /\ classes' = store.roster
        /\ phase' = "loaded"
        /\ UNCHANGED classesIsArray
     \/ /\ store.kind = "unparsable"
        /\ classes' = <<>>
        /\ phase' = "loaded"
        /\ UNCHANGED classesIsArray
     \/ /\ store.kind = "nonarray"
        /\ classesIsArray' = FALSE
        /\ phase' = "loaded"
        /\ UNCHANGED classes
  /\ store' = AutoSaveEffect(classes, store)
  /\ last' = Event("loadEffects", 0)
  /\ UNCHANGED <<isModalOpen, isEditMode, currentClass, term, year, now, shown>>

Rerender ==
  /\ phase = "loaded"
  /\ IF classesIsArray
     THEN /\ shown' = Display(classes)
          /\ store' = AutoSaveEffect(classes, store)
          /\ phase' = "idle"
     ELSE \* classes.forEach is not a function: the render throws
          /\ phase' = "crashed"
          /\ UNCHANGED <<shown, store>>
  /\ last' = Event("render", 0)
  /\ UNCHANGED <<classes, classesIsArray, isModalOpen, isEditMode, currentClass,
                 term, year, now>>

\* the render after setClasses(cs) in a handler, and its auto-save effect
Commit(cs) ==
  /\ classes' = cs
  /\ shown' = IF cs = classes THEN shown ELSE Display(cs)
  /\ store' = AutoSaveEffect(cs, store)

(***************************************************************************)
(* The modal.  The dialog is modal: while it is open the page behind it    *)
(* takes no clicks.                                                        *)
(***************************************************************************)
DialogBlocksPage == isModalOpen

\* handleOpenAddModal without the reset of the draft
handleOpenAddModalKeepsDraft ==
  /\ phase = "idle" /\ ~DialogBlocksPage
  /\ isEditMode' = FALSE
  /\ term' = ""
  /\ year' = ""
  /\ isModalOpen' = TRUE
  /\ last' = Event("handleOpenAddModal", 0)
  /\ UNCHANGED <<phase, classes, classesIsArray, store, now, shown, currentClass>>

handleOpenAddModal ==
  /\ phase = "idle" /\ ~DialogBlocksPage
  /\ isEditMode' = FALSE
  /\ currentClass' = EmptyDraft
  /\ term' = ""
  /\ year' = ""
  /\ isModalOpen' = TRUE
  /\ last' = Event("handleOpenAddModal", 0)
  /\ UNCHANGED <<phase, classes, classesIsArray, store, now, shown>>

\* the state updates of handleOpenEditModal(cls)
OpenEditUpdates(cls) ==
  /\ isEditMode' = TRUE
  /\ currentClass' = cls
  /\ IF SemesterTruthy(cls.semester)
     THEN IF Len(cls.semester) = 2
          THEN /\ term' = getFullTermName(cls.semester[1])
               /\ year' = cls.semester[2]
          ELSE UNCHANGED <<term, year>>
     ELSE /\ term' = ""
          /\ year' = ""
  /\ isModalOpen' = TRUE

handleOpenEditModal(i) ==
  /\ phase = "idle" /\ ~DialogBlocksPage
  /\ i \in 1..Len(classes)
  /\ OpenEditUpdates(classes[i])
  /\ last' = Event("handleOpenEditModal", classes[i].id)
  /\ UNCHANGED <<phase, classes, classesIsArray, store, now, shown>>

ChangeField(draft, t, y, what) ==
  /\ phase = "idle" /\ isModalOpen
  /\ currentClass' = draft
  /\ term' = t
  /\ year' = y
  /\ last' = Event(what, 0)
  /\ UNCHANGED <<phase, classes, classesIsArray, isModalOpen, isEditMode, store,
                 now, shown>>

ChangeName ==
  \E n \in NamePick \cup {""} :
    ChangeField([currentClass EXCEPT !.name = n], term, year, "changeField")

ChangeGrade ==
  \E g \in GradePick :
    ChangeField([currentClass EXCEPT !.grade = g], term, year, "changeField")

ChangeCredits ==
  \E c \in CreditPick :
    ChangeField([currentClass EXCEPT !.credits = c], term, year, "changeField")

ChangeTerm == \E t \in TermPick : ChangeField(currentClass, t, year, "changeField")

ChangeYear == \E y \in YearPick : ChangeField(currentClass, term, y, "changeField")

\* the Cancel button, and the dialog's own dismissal (onOpenChange)
Cancel ==
  /\ phase = "idle" /\ isModalOpen
  /\ isModalOpen' = FALSE
  /\ last' = Event("cancel", 0)
  /\ UNCHANGED <<phase, classes, classesIsArray, isEditMode, currentClass, term,
                 year, store, now, shown>>

(***************************************************************************)
(* Submit.                                                                 *)
(***************************************************************************)
\* the guard of line 210 with the grade forgotten
SaveClassReturnsIgnoringGrade(draft, t, y) ==
  draft.name = "" \/ draft.credits = 0 \/ t = "" \/ y = ""

\* the guard of line 210 with the year forgotten
SaveClassReturnsIgnoringYear(draft, t, y) ==
  draft.name = "" \/ draft.grade = "" \/ draft.credits = 0 \/ t = ""

\* the guard of line 210: handleSaveClass returns at once
SaveClassReturns(draft, t, y) ==
  draft.name = "" \/ draft.grade = "" \/ draft.credits = 0 \/ t = "" \/ y = ""

\* line 257
isFormValid ==
  currentClass.name # "" /\ currentClass.grade # "" /\ currentClass.credits # 0
    /\ term # "" /\ year # ""

\* lines 215-219: `${termAbbr} ${year}`
EncodeSemester(t, y) ==
  IF t # "" /\ y # "" THEN <<getTermAbbreviation(t), y>> ELSE EmptyString

\* line 221
TakesUpdateBranch == isEditMode /\ currentClass.id # 0

\* lines 223-225
UpdatedClasses(cs, draft, semester) ==
  [i \in 1..Len(cs) |->
     IF cs[i].id = draft.id THEN [draft EXCEPT !.semester = semester] ELSE cs[i]]

\* lines 228-235, with Date.now() = t
AddedClasses(cs, draft, semester, t) ==
  cs \o <<ClassEntry(t, draft.name, draft.grade, draft.credits, semester)>>

\* the Add/Update button of the dialog.  The button is disabled while
\* isFormValid() is false; the handler checks again by itself, and is
\* modelled for every draft.
handleSaveClass ==
  /\ phase = "idle" /\ isModalOpen
  /\ IF SaveClassReturns(currentClass, term, year)
     THEN /\ last' = Event("submitNoop", 0)
          /\ UNCHANGED <<classes, shown, store, currentClass, term, year,
                         isModalOpen>>
     ELSE /\ IF TakesUpdateBranch
             THEN /\ Commit(UpdatedClasses(classes, currentClass,
                                           EncodeSemester(term, year)))
                  /\ last' = SubmitEvent("submitUpdate", currentClass.id, term, year)
             ELSE /\ Len(classes) < MaxLen
                  /\ Commit(AddedClasses(classes, currentClass,
                                         EncodeSemester(term, year), now))
                  /\ last' = SubmitEvent("submitAdd", now, term, year)
          /\ currentClass' = EmptyDraft
          /\ term' = ""
          /\ year' = ""
          /\ isModalOpen' = FALSE
  /\ UNCHANGED <<phase, classesIsArray, isEditMode, now>>

(***************************************************************************)
(* Delete and the explicit save.                                           *)
(***************************************************************************)
\* line 247
RemoveClass(cs, id) == SelectSeq(cs, LAMBDA cls : cls.id # id)

\* handleDeleteClass without e.stopPropagation()
PropagationNotStopped == FALSE

\* line 246: e.stopPropagation()
StopsPropagation == TRUE

\* a click on the delete button of row i: handleDeleteClass, then the row's
\* own onClick unless the event was stopped
ClickDelete(i) ==
  /\ phase = "idle" /\ ~DialogBlocksPage
  /\ i \in 1..Len(classes)
  /\ Commit(RemoveClass(classes, classes[i].id))
  /\ IF StopsPropagation
     THEN UNCHANGED <<isModalOpen, isEditMode, currentClass, term, year>>
     ELSE OpenEditUpdates(classes[i])
  /\ last' = Event("handleDeleteClass", classes[i].id)
  /\ UNCHANGED <<phase, classesIsArray, now>>

\* handleDeleteClass called with an id that no row carries
DeleteUnknown(id) ==
  /\ phase = "idle" /\ ~DialogBlocksPage
  /\ \A i \in 1..Len(classes) : classes[i].id # id
  /\ Commit(RemoveClass(classes, id))
  /\ last' = Event("handleDeleteUnknown", 0)
  /\ UNCHANGED <<phase, classesIsArray, isModalOpen, isEditMode, currentClass,
                 term, year, now>>

\* handleSave with the guard of the auto-save effect
handleSaveUnlessEmpty ==
  /\ phase = "idle" /\ ~DialogBlocksPage
  /\ store' = AutoSaveEffect(classes, store)
  /\ last' = Event("handleSave", 0)
  /\ UNCHANGED <<phase, classes, classesIsArray, isModalOpen, isEditMode,
                 currentClass, term, year, now, shown>>

handleSave ==
  /\ phase = "idle" /\ ~DialogBlocksPage
  /\ store' = JSONstringify(classes)
  /\ last' = Event("handleSave", 0)
  /\ UNCHANGED <<phase, classes, classesIsArray, isModalOpen, isEditMode,
                 currentClass, term, year, now, shown>>

\* time passes between two events, or does not
Tick ==
  /\ phase = "idle"
  /\ now < MaxNow
  /\ now' = now + 1
  /\ UNCHANGED <<phase, classes, classesIsArray, isModalOpen, isEditMode,
                 currentClass, term, year, store, shown, last>>

Next ==
  \/ LoadEffects
  \/ Rerender
  \/ handleOpenAddModal
  \/ \E i \in 1..MaxLen : handleOpenEditModal(i)
  \/ ChangeName
  \/ ChangeGrade
  \/ ChangeCredits
  \/ ChangeTerm
  \/ ChangeYear
  \/ Cancel
  \/ handleSaveClass
  \/ \E i \in 1..MaxLen : ClickDelete(i)
  \/ \E id \in 1..MaxNow : DeleteUnknown(id)
  \/ handleSave
  \/ Tick

Spec == Init /\ [][Next]_vars

(***************************************************************************)
(* The GPA derivation on every roster of up to MaxGpaLen classes with a    *)
(* grade of the table and 1..6 credits: the state after the load effect    *)
(* has read such a roster, and the render that displays it.                *)
(***************************************************************************)
GpaName(i) == IF i = 1 THEN "Calc I" ELSE IF i = 2 THEN "Art" ELSE "Seminar"

GpaRostersOfLen(n) ==
  {[i \in 1..n |-> ClassEntry(i, GpaName(i), f[i][1], f[i][2], <<"FA", "24">>)] :
     f \in [1..n -> Grades \X (1..6)]}

InitGPA ==
  /\ phase = "loaded"
  /\ \E n \in 0..MaxGpaLen : classes \in GpaRostersOfLen(n)
  /\ classesIsArray = TRUE
  /\ isModalOpen = FALSE
  /\ isEditMode = FALSE
  /\ currentClass = EmptyDraft
  /\ term = ""
  /\ year = ""
  /\ store = JSONstringify(classes)
  /\ now = 2
  /\ shown = Display(<<>>)
  /\ last = Event("loadEffects", 0)

SpecGPA == InitGPA /\ [][Rerender]_vars

(***************************************************************************)
(* The derived values on stored rosters with partial entries: no grade, no *)
(* credits (0 stands for an absent credits value), or a grade outside the  *)
(* table.                                                                  *)
(***************************************************************************)
PartialGrades == {"", "A", "B-", "Z"}
PartialCredits == {0, 2, 4}

PartialRostersOfLen(n) ==
  {[i \in 1..n |-> ClassEntry(i, GpaName(i), f[i][1], f[i][2], NoSemester)] :
     f \in [1..n -> PartialGrades \X PartialCredits]}

InitPartial ==
  /\ phase = "loaded"
  /\ classes \in UNION {PartialRostersOfLen(n) : n \in 0..MaxGpaLen}
  /\ classesIsArray = TRUE
  /\ isModalOpen = FALSE
  /\ isEditMode = FALSE
  /\ currentClass = EmptyDraft
  /\ term = ""
  /\ year = ""
  /\ store = JSONstringify(classes)
  /\ now = 2
  /\ shown = Display(<<>>)
  /\ last = Event("loadEffects", 0)

SpecPartial == InitPartial /\ [][Rerender]_vars

(***************************************************************************)
(* The semester encoding on every term and year of the selectors: a draft  *)
(* that is complete in the open Add dialog, its submit, and the row click  *)
(* that opens the stored entry for edit (and the submits and clicks that   *)
(* may follow).                                                            *)
(***************************************************************************)
InitSem ==
  /\ phase = "idle"
  /\ classes = <<>>
  /\ classesIsArray = TRUE
  /\ isModalOpen = TRUE
  /\ isEditMode = FALSE
  /\ currentClass = ClassEntry(0, "Art", "A", 2, EmptyString)
  /\ term \in AllTerms
  /\ year \in AllYears
  /\ store = AbsentItem
  /\ now = 2
  /\ shown = Display(<<>>)
  /\ last = Event("changeField", 0)

NextSem ==
  \/ handleSaveClass
  \/ \E i \in 1..MaxLen : handleOpenEditModal(i)

SpecSem == InitSem /\ [][NextSem]_vars

(***************************************************************************)
(* Properties.                                                             *)
(***************************************************************************)
\* a step of one of the handlers named in ops (Tick alone leaves last alone
\* and moves the clock)
StepOf(ops) == last'.op \in ops /\ now' = now

\* the roster a later load() would put in memory
LoadedRoster(st) == IF st.kind = "array" THEN st.roster ELSE <<>>

ModalAndDraft == <<isModalOpen, isEditMode, currentClass, term, year>>

\* C1: after every successful mutation of the roster (add, update, delete) the
\* value persisted under the storage key equals the in-memory roster, also
\* when the mutation leaves the roster empty.
C1_StoreEqualsRosterAfterMutation ==
  last.op \in {"submitAdd", "submitUpdate", "handleDeleteClass"}
    => LoadedRoster(store) = classes

RECURSIVE SumHundredths(_)
SumHundredths(cs) ==
  IF cs = <<>> THEN 0
  ELSE GradeHundredths[cs[1].grade] * cs[1].credits + SumHundredths(Tail(cs))

RECURSIVE SumCredits(_)
SumCredits(cs) == IF cs = <<>> THEN 0 ELSE cs[1].credits + SumCredits(Tail(cs))

\* the decimal n / 10^d written with d places
Decimal(n, d) ==
  IF d = 0 THEN IntToString(n)
  ELSE IntToString(n \div 10^d) \o <<".">> \o PadDigits(n % 10^d, d)

\* the quotient P / (100 * C) in the shortest exact form of 0..2 decimal
\* places, else rounded to 3 places
ShortestExact(P, C) ==
  IF P % (100 * C) = 0 THEN Decimal(P \div (100 * C), 0)
  ELSE IF (10 * P) % (100 * C) = 0 THEN Decimal((10 * P) \div (100 * C), 1)
  ELSE IF P % C = 0 THEN Decimal(P \div C, 2)
  ELSE Decimal((20 * P + C) \div (2 * C), 3)

\* C2: for every non-empty roster of entries with a grade of the table and
\* credits in 1..6, computeGPA() is the quotient of the summed grade points
\* (exact hundredths) by the summed credits, written with the smallest number
\* of decimal places in 0..3 that is exact, and rounded to 3 places otherwise.
C2_GpaIsShortestExactQuotient ==
  (phase = "idle" /\ classes # <<>>)
    => shown.gpa = ShortestExact(SumHundredths(classes), SumCredits(classes))

C3_Roster ==
  /\ Len(classes) = 2
  /\ classes[1].name = "Calc I" /\ classes[1].grade = "A" /\ classes[1].credits = 4
  /\ classes[2].name = "Art" /\ classes[2].grade = "B-" /\ classes[2].credits = 2

\* C3 as stated: for the roster [Calc I, A, 4 credits; Art, B-, 2 credits]
\* computeGPA() returns "3.223" and computeTotalCredits() returns 6.
C3_ScenarioShows3223 ==
  (phase = "idle" /\ C3_Roster)
    => shown = [gpa |-> <<"3", ".", "2", "2", "3">>, credits |-> 6]

\* C3 as amended: for the roster [Calc I, A, 4 credits; Art, B-, 2 credits]
\* computeGPA() returns "3.557", the value of (4.00*4 + 2.67*2)/6 = 3.5566..
\* to 3 decimals, and computeTotalCredits() returns 6.
C3_ScenarioShows3557 ==
  (phase = "idle" /\ C3_Roster)
    => shown = [gpa |-> <<"3", ".", "5", "5", "7">>, credits |-> 6]

C3_ScenarioDisplayed == phase = "idle" /\ C3_Roster

DraftFieldMissing ==
  \/ currentClass.name = ""
  \/ currentClass.grade = ""
  \/ currentClass.credits = 0
  \/ term = ""
  \/ year = ""

\* C4: submit() with any one of name, grade, credits, term, year missing
\* changes nothing (roster, store, modal and mode, draft), and isValid() is
\* false in exactly the drafts for which submit() is such a no-op.
C4_IncompleteSubmitChangesNothing ==
  [][StepOf({"submitNoop", "submitUpdate", "submitAdd"})
       => /\ DraftFieldMissing => UNCHANGED <<classes, store, ModalAndDraft>>
          /\ ~isFormValid <=> UNCHANGED <<classes, store, ModalAndDraft>>]_vars

C4_IncompleteSubmitDone ==
  /\ last.op = "submitNoop"
  /\ isModalOpen
  /\ currentClass.name # "" /\ currentClass.grade # "" /\ currentClass.credits # 0
  /\ term # "" /\ year = ""

NoDuplicateIds ==
  \A i, j \in 1..Len(classes) : i # j => classes[i].id # classes[j].id

\* C5: a successful submit() in Adding mode appends exactly one entry whose id
\* differs from the id of every entry already in the roster and leaves the
\* prior entries and their order unchanged; so no roster ever has two entries
\* of the same id.
C5_AddAppendsFreshId ==
  /\ []NoDuplicateIds
  /\ [][StepOf({"submitAdd"})
          => /\ Len(classes') = Len(classes) + 1
             /\ SubSeq(classes', 1, Len(classes)) = classes
             /\ \A i \in 1..Len(classes) :
                  classes[i].id # classes'[Len(classes')].id]_vars

TermCode == ("Fall" :> "FA") @@ ("Spring" :> "SP") @@ ("Summer" :> "SM") @@ ("Winter" :> "WN")

\* C6: a successful submit() in Editing mode leaves the roster's length and
\* order unchanged and keeps the edited entry's id; the entry at the edited
\* position takes the draft's fields with the newly encoded semester, and
\* every other entry is unchanged.
C6_EditReplacesOnlyTarget ==
  [][StepOf({"submitUpdate"})
       => /\ Len(classes') = Len(classes)
          /\ \E i \in 1..Len(classes) :
               /\ classes[i].id = currentClass.id
               /\ classes'[i].id = classes[i].id
               /\ classes'[i] =
                    [currentClass EXCEPT !.semester = <<TermCode[term], year>>]
               /\ \A j \in (1..Len(classes)) \ {i} : classes'[j] = classes[j]]_vars

\* C7: after cancel() and after a successful submit() the modal is Closed and
\* the draft is cleared, so whenever the modal is Closed the draft is empty:
\* name, grade, semester, term and year empty and credits undefined.
C7_ClosedModalHasEmptyDraft ==
  (phase = "idle" /\ ~isModalOpen)
    => /\ currentClass.name = "" /\ currentClass.grade = ""
       /\ currentClass.credits = 0 /\ currentClass.semester = EmptyString
       /\ term = "" /\ year = ""

\* C8: deleteEntry(id) with an id that matches no entry leaves the roster
\* unchanged and still triggers persistence, so that after the step the store
\* holds the current roster.
C8_DeleteUnknownKeepsRosterAndPersists ==
  [][StepOf({"handleDeleteUnknown"})
       => classes' = classes /\ LoadedRoster(store') = classes']_vars

RECURSIVE Without(_, _)
Without(cs, id) ==
  IF cs = <<>> THEN <<>>
  ELSE (IF cs[1].id = id THEN <<>> ELSE <<cs[1]>>) \o Without(Tail(cs), id)

\* C9: deleteEntry(id) removes exactly the entries whose id equals id, keeps
\* every other entry in its relative order, and leaves the modal state and the
\* draft unchanged: the row's delete control never also runs openEdit.
C9_DeleteRemovesOnlyThatId ==
  [][/\ StepOf({"handleDeleteClass"})
          => /\ \E i \in 1..Len(classes) : classes[i].id = last'.arg
             /\ classes' = Without(classes, last'.arg)
             /\ UNCHANGED ModalAndDraft
     /\ StepOf({"handleDeleteUnknown"})
          => classes' = classes /\ UNCHANGED ModalAndDraft]_vars

C9_DeletedOneOfTwo ==
  last.op = "handleDeleteClass" /\ Len(classes) = 1 /\ ~isModalOpen

\* C10: load() yields an empty in-memory roster when nothing is stored and
\* when the stored value is not parseable as a valid roster (unparsable text,
\* or parsable text that is not a list); loading never ends in a crashed state.
C10_LoadFallsBackToEmpty ==
  /\ phase # "crashed"
  /\ (/\ phase \in {"loaded", "idle"}
      /\ last.op \in {"loadEffects", "render"}
      /\ store.kind \in {"absent", "unparsable", "nonarray"})
       => (classesIsArray /\ classes = <<>>)

\* C11: round trip of the semester encoding: for every term of the selector
\* and every year "00".."99", submitting a draft with that term and year and
\* then calling openEdit on the stored entry sets the draft's term and year
\* back to exactly the submitted term and year.
C11_SemesterRoundTrip ==
  [][(/\ last.op \in {"submitAdd", "submitUpdate"}
      /\ StepOf({"handleOpenEditModal"})
      /\ last'.arg = last.arg)
       => (term' = last.term /\ year' = last.year)]_vars

C11_WinterNinetyNineReopened ==
  /\ last.op = "handleOpenEditModal"
  /\ isModalOpen /\ isEditMode
  /\ currentClass.semester = <<"WN", "99">>
  /\ term = "Winter" /\ year = "99"

HasGradeAndCredits(cls) == cls.grade # "" /\ cls.credits # 0

WithGradeAndCredits(cs) == SelectSeq(cs, HasGradeAndCredits)

\* C12: computeGPA() returns "0" when the roster is empty and when no entry
\* has both a non-empty grade and a truthy credits value; entries lacking
\* grade or credits are never counted in the GPA (the result is that of the
\* roster without them), and they stay in the roster.
C12_PartialEntriesNotCounted ==
  /\ [](phase = "idle"
          => /\ WithGradeAndCredits(classes) = <<>> => shown.gpa = <<"0">>
             /\ WithGradeAndCredits(classes) # <<>>
                  => shown.gpa = calculateGPA(WithGradeAndCredits(classes)))
  /\ [][StepOf({"render"}) => classes' = classes]_vars

C12_PartialRosterShowsZero ==
  /\ phase = "idle"
  /\ Len(classes) = 2
  /\ classes[1].grade = "" /\ classes[1].credits = 2
  /\ classes[2].grade = "A" /\ classes[2].credits = 0
  /\ shown.gpa = <<"0">>

\* C13: computeTotalCredits() equals the sum of credits (0 for an entry
\* without credits) over every entry of the roster, including the entries
\* with a missing or invalid grade, and is at least the credit sum that
\* computeGPA() divides by.
C13_TotalCreditsSumsEveryEntry ==
  phase = "idle"
    => /\ shown.credits = SumCredits(classes)
       /\ shown.credits >= SumCredits(WithGradeAndCredits(classes))

C13_UngradedCreditsCounted ==
  /\ phase = "idle"
  /\ Len(classes) = 2
  /\ classes[1].grade = "" /\ classes[1].credits = 4
  /\ classes[2].grade = "A" /\ classes[2].credits = 2
  /\ shown.credits = 6

\* C14: the explicit save writes the same data as the auto-persist path:
\* after it the value stored under the key equals the current in-memory
\* roster, for every roster including the empty one, and the save leaves the
\* roster, the modal state and the draft unchanged.
C14_ExplicitSaveStoresRoster ==
  [][StepOf({"handleSave"})
       => /\ store'.kind = "array"
          /\ store'.roster = classes
          /\ UNCHANGED <<classes, ModalAndDraft>>]_vars

C14_EmptyRosterSaved ==
  /\ last.op = "handleSave"
  /\ classes = <<>>
  /\ store.kind = "array" /\ store.roster = <<>>

WellFormed(cls) ==
  cls.name # "" /\ cls.grade \in DOMAIN GradeHundredths /\ cls.credits \in 1..6

\* C15: starting from an absent store or a store whose entries are all well
\* formed, after any sequence of operations every entry of the persisted
\* roster has a non-empty name, a grade of the table and credits in 1..6.
C15_PersistedEntriesWellFormed ==
  store.kind = "array"
    => \A i \in 1..Len(store.roster) : WellFormed(store.roster[i])

C15_TwoEntriesPersisted ==
  /\ last.op = "submitAdd"
  /\ store.kind = "array"
  /\ Len(store.roster) = 2
  /\ store.roster = classes

\* C16: openEdit(entry) copies the entry's fields into the draft and enters
\* Editing; when the entry's semester is non-empty but does not consist of
\* exactly two space-separated tokens, the draft's term and year are empty
\* after openEdit, whatever operations preceded it.
C16_OddSemesterLeavesTermAndYearEmpty ==
  [][StepOf({"handleOpenEditModal"})
       => \E i \in 1..Len(classes) :
            /\ currentClass' = classes[i]
            /\ isEditMode' /\ isModalOpen'
            /\ (/\ classes[i].semester # NoSemester
                /\ classes[i].semester # EmptyString
                /\ Len(classes[i].semester) # 2)
                 => (term' = "" /\ year' = "")]_vars

\* C17: the modal goes Closed -> Adding -> Closed or Closed -> Editing ->
\* Closed: Adding and Editing are entered only from Closed and the mode does
\* not change while the modal is open.  openAdd() enters Adding with a
\* completely empty draft (no name, grade, credits, semester, term, year, id),
\* whatever an earlier add or edit left behind, so a submit in Adding mode
\* appends and never replaces an existing entry.
C17_ModalTransitions ==
  [][/\ StepOf({"handleOpenAddModal"})
          => /\ ~isModalOpen /\ isModalOpen' /\ ~isEditMode'
             /\ currentClass' = [id |-> 0, name |-> "", grade |-> "",
                                 credits |-> 0, semester |-> <<"">>]
             /\ term' = "" /\ year' = ""
     /\ StepOf({"handleOpenEditModal"})
          => ~isModalOpen /\ isModalOpen' /\ isEditMode'
     /\ (~isModalOpen /\ isModalOpen')
          => StepOf({"handleOpenAddModal", "handleOpenEditModal"})
     /\ (isModalOpen /\ isModalOpen') => isEditMode' = isEditMode
     /\ (StepOf({"submitNoop", "submitUpdate", "submitAdd"})
           /\ ~isEditMode /\ ~DraftFieldMissing)
          => /\ Len(classes') = Len(classes) + 1
             /\ SubSeq(classes', 1, Len(classes)) = classes]_vars

C17_AddOpenedOverRoster ==
  /\ last.op = "handleOpenAddModal"
  /\ isModalOpen /\ ~isEditMode
  /\ currentClass.id = 0 /\ currentClass.name = ""
  /\ classes # <<>>

\* C18: startup never damages saved data.  When the store holds a roster,
\* mounting the view (empty in-memory roster, load, the auto-save the load
\* triggers) ends with the in-memory roster equal to the stored roster and
\* the store unchanged; no step of startup overwrites the store with the
\* initial empty roster.
C18_StartupKeepsStore ==
  /\ []((phase = "idle" /\ last.op = "render" /\ store.kind = "array")
          => classes = store.roster)
  /\ [][(StepOf({"loadEffects", "render"}) /\ store.kind = "array")
          => store' = store]_vars

C18_SavedRosterLoaded ==
  /\ phase = "idle" /\ last.op = "render"
  /\ store = [kind |-> "array", roster |-> <<SavedClass>>]
  /\ classes = <<SavedClass>>

DecimalDigit ==
  ("0" :> 0) @@ ("1" :> 1) @@ ("2" :> 2) @@ ("3" :> 3) @@ ("4" :> 4) @@
  ("5" :> 5) @@ ("6" :> 6) @@ ("7" :> 7) @@ ("8" :> 8) @@ ("9" :> 9)

RECURSIVE DigitsValue(_)
DigitsValue(s) ==
  IF s = <<>> THEN 0
  ELSE 10 * DigitsValue(SubSeq(s, 1, Len(s) - 1)) + DecimalDigit[s[Len(s)]]

PointAt(s) ==
  IF \E i \in 1..Len(s) : s[i] = "."
  THEN CHOOSE i \in 1..Len(s) : s[i] = "."
  ELSE Len(s) + 1

\* s is digits, optionally followed by a point and one to three digits
IsDecimalString(s) ==
  /\ PointAt(s) > 1
  /\ Len(s) - PointAt(s) \in {-1, 1, 2, 3}
  /\ \A i \in 1..Len(s) : i # PointAt(s) => s[i] \in DOMAIN DecimalDigit

\* the value of a decimal string, in thousandths
Thousandths(s) ==
  LET p == PointAt(s)
      frac == SubSeq(s, p + 1, Len(s))
  IN  1000 * DigitsValue(SubSeq(s, 1, p - 1))
        + DigitsValue(frac) * (IF Len(frac) = 1 THEN 100
                               ELSE IF Len(frac) = 2 THEN 10 ELSE 1)

\* C20: for every roster that add, edit and delete can build (entries with a
\* grade of the table and 1..6 credits), the displayed GPA is a decimal
\* between 0 and 4 inclusive, also after rounding to three decimals.
C20_DisplayedGpaWithinScale ==
  phase = "idle"
    => /\ IsDecimalString(shown.gpa)
       /\ Thousandths(shown.gpa) >= 0
       /\ Thousandths(shown.gpa) <= 4000

C20_RoundedJustBelowFour ==
  /\ phase = "idle"
  /\ Len(classes) = 2
  /\ classes[1].grade = "A-" /\ classes[1].credits = 1
  /\ classes[2].grade = "A" /\ classes[2].credits = 6
  /\ shown.gpa = <<"3", ".", "9", "5", "3">>

====
